---- MODULE Spec2Model ----
(***************************************************************************)
(* Request admission and two-stage generation pipeline of the             *)
(* SearchActivities cloud function (src/cmd/main.go, src/gemini_client.go)*)
(*                                                                         *)
(* Texts that the code trims, splits, slices or searches are sequences of *)
(* characters or tokens; fixed messages are TLA+ strings.                  *)
(***************************************************************************)
EXTENDS Integers, Sequences, FiniteSets, TLC

(***************************************************************************)
(* Bounds of the model                                                     *)
(***************************************************************************)
\* Number of request handlers that can be in flight at the same time.
MaxInFlight == 2
\* The wall clock runs from 0 to MaxTime.
MaxTime == 4

Requests == 1..MaxInFlight

(***************************************************************************)
(* Configuration (main.go:94-97), scaled to the clock of the model         *)
(***************************************************************************)
maxRequestsPerWindow == 2
rateLimitWindow == 2

(***************************************************************************)
(* strings helpers used by the handler                                     *)
(***************************************************************************)
IsSpace(c) == c \in {" ", "\n", "\t"}

RECURSIVE TrimLeft(_)
TrimLeft(s) == IF s # <<>> /\ IsSpace(Head(s)) THEN TrimLeft(Tail(s)) ELSE s

RECURSIVE TrimRight(_)
TrimRight(s) ==
    IF s # <<>> /\ IsSpace(s[Len(s)]) THEN TrimRight(SubSeq(s, 1, Len(s) - 1)) ELSE s

\* strings.TrimSpace
TrimSpace(s) == TrimRight(TrimLeft(s))

\* strings.Index for a one-character separator; 0 when absent (Go: -1).
IndexOf(s, c) ==
    IF \E i \in 1..Len(s) : s[i] = c
    THEN CHOOSE i \in 1..Len(s) : s[i] = c /\ \A j \in 1..(i - 1) : s[j] # c
    ELSE 0

\* strings.LastIndex for a one-character separator; 0 when absent (Go: -1).
LastIndex(s, c) ==
    IF \E i \in 1..Len(s) : s[i] = c
    THEN CHOOSE i \in 1..Len(s) : s[i] = c /\ \A j \in (i + 1)..Len(s) : s[j] # c
    ELSE 0

\* strings.Split(s, sep) for a one-character separator.
RECURSIVE Split(_, _)
Split(s, sep) ==
    LET i == IndexOf(s, sep)
    IN IF i = 0 THEN <<s>>
       ELSE <<SubSeq(s, 1, i - 1)>> \o Split(SubSeq(s, i + 1, Len(s)), sep)


\* bytes.Index(s, m): first position at which m occurs in s; 0 when absent
\* (Go: -1).
IndexSeq(s, m) ==
    LET hits == {i \in 1..(Len(s) - Len(m) + 1) : SubSeq(s, i, i + Len(m) - 1) = m}
    IN IF hits = {} THEN 0 ELSE CHOOSE i \in hits : \A j \in hits : i <= j

(***************************************************************************)
(* Process environment and request inputs                                  *)
(***************************************************************************)
\* Values of ALLOWED_IPS: unset, and a list naming "a" with a padding blank.
AllowedIPsValues == {<<>>, <<" ", "a">>}
\* Values of SKIP_APP_CHECK: unset, the bypass value, another value.
SkipAppCheckValues == {"", "true", "TRUE"}

\* r.RemoteAddr of every connection of the model: host "b", some port.
RemoteAddr == <<"b", ":", "9">>

\* X-Forwarded-For header values: absent, "a", " a,b".
XForwardedFors == {<<>>, <<"a">>, <<" ", "a", ",", "b">>}

\* X-Firebase-AppCheck header values: absent, a token the verifier accepts,
\* a token it refuses.
AppCheckTokens == {"", "good", "bad"}

\* Outcomes of the Firebase calls before VerifyToken.
FirebaseOutcomes == {"newAppErr", "appCheckErr", "ready"}

\* What getSecretValue hands to NewGeminiClient: "" when the project id is
\* missing or the secret cannot be read.
SecretValues == {"", "key"}

\* SearchRequest bodies. wellFormed = FALSE is a body json.Decode refuses.
Body(wf, q, loc, hasAge, hasDate, start) ==
    [wellFormed |-> wf, Query |-> q, Location |-> loc, hasAgeRange |-> hasAge,
     hasDateRange |-> hasDate, StartDate |-> start]

MalformedBody == Body(FALSE, <<>>, <<>>, FALSE, FALSE, <<>>)
NoQueryBody == Body(TRUE, <<>>, <<>>, FALSE, FALSE, <<>>)
BlankBody == Body(TRUE, <<" ", " ">>, <<>>, FALSE, FALSE, <<>>)
PlainBody == Body(TRUE, <<"z", "o", "o">>, <<>>, FALSE, FALSE, <<>>)
DatedBody ==
    Body(TRUE, <<"z", "o", "o">>, <<"c", "i", "t", "y">>, TRUE, TRUE,
         <<"2", "0", "2", "5", "-", "1", "2", "-", "2", "0">>)
ShortDateBody == Body(TRUE, <<"z", "o", "o">>, <<>>, FALSE, TRUE, <<"2", "5">>)

Bodies == {MalformedBody, NoQueryBody, BlankBody, PlainBody, DatedBody, ShortDateBody}

(***************************************************************************)
(* Upstream responses.  A text is a sequence of tokens:                   *)
(*   "F" the fence ```, "j" the word json, "\n" a newline, "p" prose,      *)
(*   "[3]" "[1]" "[]" JSON arrays of 3, 1, 0 activities, "null" the JSON   *)
(*   null, "[x" a truncated array.                                         *)
(***************************************************************************)
Upstream(transportErr, status, parses, candidates) ==
    [transportErr |-> transportErr, status |-> status, parses |-> parses,
     candidates |-> candidates]

\* A candidate is the sequence of its parts' texts.
OneCandidate(parts) == Upstream(FALSE, 200, TRUE, <<parts>>)

TransportFailure == Upstream(TRUE, 0, FALSE, <<>>)
Status500 == Upstream(FALSE, 500, FALSE, <<>>)
GarbledEnvelope == Upstream(FALSE, 200, FALSE, <<>>)
NoCandidates == Upstream(FALSE, 200, TRUE, <<>>)
NoParts == OneCandidate(<<>>)

UpstreamFailures == {TransportFailure, Status500, GarbledEnvelope, NoCandidates, NoParts}

IntroText == <<"Okay, I will search for museums.">>
RealText == <<"Real content here.">>
MoreText == <<"More.">>

Stage1Responses ==
    UpstreamFailures \cup
    {OneCandidate(<<RealText>>), OneCandidate(<<IntroText, RealText>>),
     OneCandidate(<<RealText, MoreText>>), OneCandidate(<<<<>>>>)}

Stage2Texts ==
    {<<"[3]">>, <<"\n", "[1]", "\n">>, <<"[]">>, <<"null">>,
     <<"F", "j", "\n", "[3]", "\n", "F">>, <<"p", "F", "\n", "[1]", "\n", "F", "p">>,
     <<"F", "j", "\n", "[x", "F", "\n", "F", "[3]", "F">>,
     <<"F", "j", "\n", "[3]">>, <<"p", "p">>, <<"[x">>}

Stage2Responses ==
    UpstreamFailures \cup {OneCandidate(<<t>>) : t \in Stage2Texts}

\* The sets an execution draws its inputs from.
Inputs(methods, xffs, tokens, firebase, bodies, secrets, stage1, stage2) ==
    [methods |-> methods, xffs |-> xffs, tokens |-> tokens, firebase |-> firebase,
     bodies |-> bodies, secrets |-> secrets, stage1 |-> stage1, stage2 |-> stage2]

\* Every method, token, body and upstream answer, from the client "a" behind a
\* proxy.
AllInputs ==
    Inputs({"POST", "OPTIONS", "GET"}, XForwardedFors \ {<<>>}, AppCheckTokens,
           FirebaseOutcomes, Bodies, SecretValues, Stage1Responses, Stage2Responses)

(***************************************************************************)
(* Admission: client key, allowlist, rate limiter                          *)
(***************************************************************************)
\* getClientIP: first X-Forwarded-For element, trimmed; else RemoteAddr
\* without its port.
getClientIP(forwarded, remoteAddr) ==
    IF forwarded # <<>>
    THEN TrimSpace(Split(forwarded, ",")[1])
    ELSE LET idx == LastIndex(remoteAddr, ":")
         IN IF idx # 0 THEN SubSeq(remoteAddr, 1, idx - 1) ELSE remoteAddr

\* getAllowedIPs: the elements of ALLOWED_IPS, none when it is unset.
getAllowedIPs(ipsEnv) == IF ipsEnv = <<>> THEN <<>> ELSE Split(ipsEnv, ",")

\* isIPAllowed comparing the elements untrimmed.
isIPAllowed_NoTrim(ip, allowedIPs) ==
    \E i \in 1..Len(allowedIPs) : allowedIPs[i] = ip

\* isIPAllowed: some element equals ip once trimmed.
isIPAllowed(ip, allowedIPs) ==
    \E i \in 1..Len(allowedIPs) : TrimSpace(allowedIPs[i]) = ip

\* A rateLimitEntry as checkRateLimit reads it: exists is the map lookup's
\* second result.
NoEntry == [exists |-> FALSE, count |-> 0, resetTime |-> 0]
Entry(c, t) == [exists |-> TRUE, count |-> c, resetTime |-> t]

\* checkRateLimit restarting the window at every admission.
checkRateLimit_Sliding(entry, t) ==
    IF ~entry.exists \/ t > entry.resetTime
    THEN [ok |-> TRUE, created |-> TRUE, entry |-> Entry(1, t + rateLimitWindow)]
    ELSE IF entry.count >= maxRequestsPerWindow
         THEN [ok |-> FALSE, created |-> FALSE, entry |-> entry]
         ELSE [ok |-> TRUE, created |-> FALSE,
               entry |-> Entry(entry.count + 1, t + rateLimitWindow)]

\* checkRateLimit with the limit test off by one (count > limit).
checkRateLimit_OffByOne(entry, t) ==
    IF ~entry.exists \/ t > entry.resetTime
    THEN [ok |-> TRUE, created |-> TRUE, entry |-> Entry(1, t + rateLimitWindow)]
    ELSE IF entry.count > maxRequestsPerWindow
         THEN [ok |-> FALSE, created |-> FALSE, entry |-> entry]
         ELSE [ok |-> TRUE, created |-> FALSE,
               entry |-> Entry(entry.count + 1, entry.resetTime)]

\* checkRateLimit counting the calls it rejects.
checkRateLimit_CountsRejected(entry, t) ==
    IF ~entry.exists \/ t > entry.resetTime
    THEN [ok |-> TRUE, created |-> TRUE, entry |-> Entry(1, t + rateLimitWindow)]
    ELSE IF entry.count >= maxRequestsPerWindow
         THEN [ok |-> FALSE, created |-> FALSE,
               entry |-> Entry(entry.count + 1, entry.resetTime)]
         ELSE [ok |-> TRUE, created |-> FALSE,
               entry |-> Entry(entry.count + 1, entry.resetTime)]

\* The body of checkRateLimit between Lock and Unlock, on the entry it read at
\* time t: the result, the entry it leaves in the map, and whether it took the
\* branch that creates the entry.
checkRateLimit(entry, t) ==
    IF ~entry.exists \/ t > entry.resetTime
    THEN [ok |-> TRUE, created |-> TRUE, entry |-> Entry(1, t + rateLimitWindow)]
    ELSE IF entry.count >= maxRequestsPerWindow
         THEN [ok |-> FALSE, created |-> FALSE, entry |-> entry]
         ELSE [ok |-> TRUE, created |-> FALSE,
               entry |-> Entry(entry.count + 1, entry.resetTime)]

\* sync.Mutex: Lock returns only while no one holds the mutex.
NoHolder == 0
Sweeper == MaxInFlight + 1
\* A return path that leaves the mutex with its holder.
Unlock_Missing(holder) == holder
\* The deferred Unlock of checkRateLimit and cleanupRateLimitMap (lines 137,
\* 163): the mutex after its holder returned.
Unlock(holder) == NoHolder
\* A Lock that never waits.
MutexFree_NoWait(mux) == TRUE
MutexFree(mux) == mux = NoHolder

\* cleanupRateLimitMap deleting every entry.
cleanupRateLimitMap_All(m, t) == [ip \in {} |-> m[ip]]

\* cleanupRateLimitMap deleting the entries up to their reset time included.
cleanupRateLimitMap_Early(m, t) ==
    [ip \in {k \in DOMAIN m : ~(t >= m[k].resetTime)} |-> m[ip]]

\* The map after cleanupRateLimitMap ran at time t.
cleanupRateLimitMap(m, t) ==
    [ip \in {k \in DOMAIN m : ~(t > m[k].resetTime)} |-> m[ip]]

(***************************************************************************)
(* Access gate                                                             *)
(***************************************************************************)
\* client.VerifyToken
VerifyToken(token) == token = "good"

\* verifyAppCheckToken letting the request pass when the Firebase SDK cannot
\* be set up.
verifyAppCheckToken_FailOpen(appCheckToken, firebase) ==
    IF appCheckToken = ""
    THEN [err |-> "missing App Check token", called |-> FALSE]
    ELSE IF firebase \in {"newAppErr", "appCheckErr"}
         THEN [err |-> "", called |-> TRUE]
         ELSE IF ~VerifyToken(appCheckToken)
              THEN [err |-> "invalid App Check token", called |-> TRUE]
              ELSE [err |-> "", called |-> TRUE]

\* verifyAppCheckToken, given the outcome of the Firebase calls it makes: the
\* error it returns ("" for nil) and whether the Firebase SDK was called.
verifyAppCheckToken(appCheckToken, firebase) ==
    IF appCheckToken = ""
    THEN [err |-> "missing App Check token", called |-> FALSE]
    ELSE IF firebase \in {"newAppErr", "appCheckErr"}
         THEN [err |-> "authentication service error", called |-> TRUE]
         ELSE IF ~VerifyToken(appCheckToken)
              THEN [err |-> "invalid App Check token", called |-> TRUE]
              ELSE [err |-> "", called |-> TRUE]

\* The gate bypassed by any non-empty SKIP_APP_CHECK.
AppCheckRequired_AnyValue(ipIsAllowed, skipAppCheck) ==
    ~ipIsAllowed /\ skipAppCheck = ""

\* The condition of main.go:248 under which the token is verified.
AppCheckRequired(ipIsAllowed, skipAppCheck) == ~ipIsAllowed /\ skipAppCheck # "true"

(***************************************************************************)
(* Generative client                                                       *)
(***************************************************************************)
\* Errors are sequences: the message, then what it carries or wraps.
\* <<>> is nil.
NoError == <<>>

\* sendGeminiRequest from the upstream's answer on: the error or the text.
sendGeminiRequest(resp) ==
    IF resp.transportErr
    THEN [err |-> <<"failed to send request">>, text |-> <<>>]
    ELSE IF resp.status # 200
    THEN [err |-> <<"Gemini API error", ToString(resp.status), "raw body">>, text |-> <<>>]
    ELSE IF ~resp.parses
    THEN [err |-> <<"failed to parse response">>, text |-> <<>>]
    ELSE IF Len(resp.candidates) = 0
    THEN [err |-> <<"no candidates in response">>, text |-> <<>>]
    ELSE IF Len(resp.candidates[1]) = 0
    THEN [err |-> <<"no parts in candidate content">>, text |-> <<>>]
    ELSE [err |-> NoError, text |-> resp.candidates[1][1]]

\* The calendar year of time.Now(): the clock of the model crosses a new
\* year at NewYearAt.
NewYearAt == 2
YearOf(t) == IF t < NewYearAt THEN <<"2", "0", "2", "5">> ELSE <<"2", "0", "2", "6">>

\* buildSearchPrompt taking the year of the clock whatever the request says.
buildSearchPrompt_ClockYear(req, t) ==
    LET age == IF req.hasAgeRange THEN <<" for kids aged ", "min-max">> ELSE <<>>
        loc == IF req.Location # <<>> THEN <<" in ">> \o req.Location ELSE <<>>
        panics == req.hasDateRange /\ Len(req.StartDate) < 4
    IN [panics |-> panics,
        prompt |-> IF panics THEN <<>>
                   ELSE <<"Search for 5-10 ">> \o req.Query \o <<" activities">>
                        \o age \o loc \o <<" for school holidays in ">>
                        \o YearOf(t) \o <<"CRITICAL INSTRUCTIONS">>]

\* buildSearchPrompt: the slice StartDate[:4] panics on a shorter string.
buildSearchPrompt(req, t) ==
    LET age == IF req.hasAgeRange THEN <<" for kids aged ", "min-max">> ELSE <<>>
        loc == IF req.Location # <<>> THEN <<" in ">> \o req.Location ELSE <<>>
        panics == req.hasDateRange /\ Len(req.StartDate) < 4
        searchYear == IF req.hasDateRange
                      THEN SubSeq(req.StartDate, 1, 4)
                      ELSE YearOf(t)
    IN [panics |-> panics,
        prompt |-> IF panics THEN <<>>
                   ELSE <<"Search for 5-10 ">> \o req.Query \o <<" activities">>
                        \o age \o loc \o <<" for school holidays in ">>
                        \o searchYear \o <<"CRITICAL INSTRUCTIONS">>]

\* searchWithGoogleSearch from the upstream's stage-1 answer on: the text of
\* sendGeminiRequest, or its error, as they are (lines 185-190).
searchWithGoogleSearch(resp) == sendGeminiRequest(resp)

\* buildConversionPrompt cutting the search results short.
buildConversionPrompt_Cut(searchResults) ==
    <<"Convert the following", "Search Results:">>
        \o SubSeq(searchResults, 1, Len(searchResults) - 1)
        \o <<"Please respond with ONLY a JSON array", "CRITICAL REQUIREMENTS">>

\* buildConversionPrompt: the fixed instructions around the search results.
buildConversionPrompt(searchResults) ==
    <<"Convert the following", "Search Results:">> \o searchResults
        \o <<"Please respond with ONLY a JSON array", "CRITICAL REQUIREMENTS">>

\* The Activity list a JSON array token decodes to.
Activity(i) == [ID |-> i, Title |-> i, BookingURL |-> i]
ActivityList(n) == [i \in 1..n |-> Activity(i)]

\* A JSON array of one activity with a fence inside a string value: "[q" is
\* the array up to the opening quote of the string, "q]" the rest from its
\* closing quote on. It decodes to the list of that activity, Activity(4).
QuotedFence == <<"[q", "F", "q]">>

\* json.Unmarshal into []Activity: white space around the value is skipped;
\* null decodes to the nil slice.
Unmarshal(text) ==
    LET t == TrimSpace(text)
    IN IF t = QuotedFence THEN [ok |-> TRUE, activities |-> <<Activity(4)>>]
       ELSE IF Len(t) # 1 THEN [ok |-> FALSE, activities |-> <<>>]
       ELSE IF t[1] = "[3]" THEN [ok |-> TRUE, activities |-> ActivityList(3)]
       ELSE IF t[1] = "[1]" THEN [ok |-> TRUE, activities |-> ActivityList(1)]
       ELSE IF t[1] \in {"[]", "null"} THEN [ok |-> TRUE, activities |-> <<>>]
       ELSE [ok |-> FALSE, activities |-> <<>>]

\* extractJSONFromMarkdown. start and end are positions in text, 0 for the
\* code's -1; start is the first position after the opening marker, end the
\* position of the closing marker.
extractJSONFromMarkdown(text) ==
    LET jsonMarker == <<"F", "j">>
        marker == <<"F">>
        Rest(from) == SubSeq(text, from, Len(text))
        Close(from) == LET e == IndexSeq(Rest(from), marker)
                       IN IF e = 0 THEN 0 ELSE from + e - 1
        jIdx == IndexSeq(text, jsonMarker)
        start1 == IF jIdx # 0 THEN jIdx + Len(jsonMarker) ELSE 0
        end1 == IF jIdx # 0 THEN Close(start1) ELSE 0
        pIdx == IndexSeq(text, marker)
        start == IF start1 # 0 THEN start1
                 ELSE IF pIdx # 0 THEN pIdx + Len(marker) ELSE 0
        end == IF start1 # 0 THEN end1
               ELSE IF pIdx # 0 THEN Close(start) ELSE 0
    IN IF start # 0 /\ end # 0
       THEN Unmarshal(SubSeq(text, start, end - 1))
       ELSE Unmarshal(text)

\* convertToStructuredJSON after the stage-2 text arrived (lines 224-234).
parseActivities(responseText) ==
    LET direct == Unmarshal(responseText)
        fenced == extractJSONFromMarkdown(responseText)
    IN IF direct.ok THEN [err |-> NoError, activities |-> direct.activities]
       ELSE IF fenced.ok THEN [err |-> NoError, activities |-> fenced.activities]
       ELSE [err |-> <<"failed to parse activities from response">>,
             activities |-> <<>>]

\* convertToStructuredJSON from the upstream's stage-2 answer on.
convertToStructuredJSON(resp) ==
    LET sent == sendGeminiRequest(resp)
    IN IF sent.err # NoError THEN [err |-> sent.err, activities |-> <<>>]
       ELSE parseActivities(sent.text)

\* fmt.Errorf("...: %w", err)
Wrap(msg, err) == <<msg>> \o err

(***************************************************************************)
(* Responses                                                               *)
(***************************************************************************)
NoResponse == [status |-> 0, Success |-> FALSE, Activities |-> <<>>,
               Message |-> <<>>, Error |-> ""]

\* sendErrorResponse
sendErrorResponse(statusCode, errorMessage) ==
    [status |-> statusCode, Success |-> FALSE, Activities |-> <<>>,
     Message |-> <<>>, Error |-> errorMessage]

\* The CORS preflight answer: 204, no body.
preflightResponse == [NoResponse EXCEPT !.status = 204]

\* performSearch answering an error with the mock activities of the earlier
\* drafts.
performSearch_Fallback(err, activities) ==
    IF err # NoError THEN ActivityList(3) ELSE activities

\* performSearch on the result of GenerateActivitiesSuggestions.
performSearch(err, activities) == IF err # NoError THEN <<>> ELSE activities

\* The 200 response of SearchActivities (lines 281-289).
successResponse(activities) ==
    [status |-> 200, Success |-> TRUE, Activities |-> activities,
     Message |-> <<"Found ", ToString(Len(activities)), " activities">>, Error |-> ""]

\* json.NewEncoder(w).Encode(response) with the tags of SearchResponse
\* (main.go:77-82): keys are the keys of the JSON object written. omitempty
\* leaves out activities when the list is empty, message and error when "".
encodeSearchResponse(resp) ==
    [keys |-> {"success"}
              \cup (IF Len(resp.Activities) # 0 THEN {"activities"} ELSE {})
              \cup (IF resp.Message # <<>> THEN {"message"} ELSE {})
              \cup (IF resp.Error # "" THEN {"error"} ELSE {}),
     success |-> resp.Success, activities |-> resp.Activities,
     message |-> resp.Message, error |-> resp.Error]

(***************************************************************************)
(* State                                                                   *)
(***************************************************************************)
VARIABLES
    env,           \* the process environment: ALLOWED_IPS, SKIP_APP_CHECK
    now,           \* the wall clock, time.Now()
    rateLimitMap,  \* client key -> [count, resetTime]
    rateLimitMux,  \* the holder of the mutex, NoHolder when free
    sweeper,       \* the cleanup goroutine: "idle" or "locked"
    h,             \* the handlers in flight, one record each
    grants,        \* history: client key -> admissions since its window opened
    opened,        \* history: client key -> time its window opened, -1 if never
    call           \* history: a method of GeminiClient, its input, its results

vars == <<env, now, rateLimitMap, rateLimitMux, sweeper, h, grants, opened, call>>

\* Every client key a request of the model can carry.
ClientIPs == {getClientIP(x, RemoteAddr) : x \in XForwardedFors}

\* A handler slot with no request in it.
Idle ==
    [pc |-> "idle", Method |-> "", clientIP |-> <<>>, ipIsAllowed |-> FALSE,
     appCheckToken |-> "", t |-> 0, entry |-> NoEntry, rateOK |-> "",
     gate |-> "", firebase |-> "", authErr |-> "", verifierCalls |-> 0, upstreamCalls |-> 0,
     body |-> <<>>, apiKey |-> "", genErr |-> NoError, searchResults |-> <<>>,
     conversionPrompt |-> <<>>, response |-> NoResponse]

\* No method of GeminiClient is followed on its own.
NoCall == [fn |-> "", arg |-> <<>>, out |-> <<>>]

\* rateLimitMap[ip] as checkRateLimit's lookup returns it.
Lookup(m, ip) == IF ip \in DOMAIN m THEN Entry(m[ip].count, m[ip].resetTime) ELSE NoEntry

\* The map with ip's entry set to e.
Store(m, ip, e) ==
    [k \in DOMAIN m \cup {ip} |->
        IF k = ip THEN [count |-> e.count, resetTime |-> e.resetTime] ELSE m[k]]

\* The handler of r answers resp to the body searchRequest. The token header
\* is not read after the gate and the record drops it here.
Respond(r, searchRequest, resp) ==
    h' = [h EXCEPT ![r] = [@ EXCEPT !.pc = "done", !.appCheckToken = "",
                                     !.body = <<searchRequest>>, !.response = resp]]

InitWith(allowed, skips) ==
    /\ env \in [ALLOWED_IPS : allowed, SKIP_APP_CHECK : skips]
    /\ now = 0
    /\ rateLimitMap = [k \in {} |-> NoEntry]
    /\ rateLimitMux = NoHolder
    /\ sweeper = "idle"
    /\ h = [r \in Requests |-> Idle]
    /\ grants = [k \in ClientIPs |-> 0]
    /\ opened = [k \in ClientIPs |-> -1]

Init == InitWith(AllowedIPsValues, SkipAppCheckValues) /\ call = NoCall

(***************************************************************************)
(* SearchActivities, one action per blocking step                          *)
(***************************************************************************)
\* A handler that lets allowlisted keys past the rate limiter.
RateLimited_UnlessAllowed(ipIsAllowed) == ~ipIsAllowed

\* Whether a POST goes through checkRateLimit (lines 241-245): always, the
\* allowlist is not consulted.
RateLimited(ipIsAllowed) == TRUE

\* Lines 208-239: method dispatch, client key, allowlist lookup.
Receive(r, I) ==
    /\ h[r].pc = "idle"
    /\ \E method \in I.methods, forwarded \in I.xffs, token \in I.tokens :
        IF method = "OPTIONS"
        THEN h' = [h EXCEPT ![r] = [@ EXCEPT !.pc = "done", !.Method = method,
                                               !.response = preflightResponse]]
        ELSE IF method # "POST"
        THEN h' = [h EXCEPT ![r] = [@ EXCEPT !.pc = "done", !.Method = method,
                    !.response = sendErrorResponse(405, "Method not allowed. Use POST.")]]
        ELSE LET ip == getClientIP(forwarded, RemoteAddr)
                 allowed == isIPAllowed(ip, getAllowedIPs(env.ALLOWED_IPS))
             IN h' = [h EXCEPT ![r] = [@ EXCEPT
                        !.pc = IF RateLimited(allowed) THEN "admit" ELSE "gate",
                        !.Method = method, !.clientIP = ip, !.appCheckToken = token,
                        !.ipIsAllowed = allowed]]
    /\ UNCHANGED <<env, now, rateLimitMap, rateLimitMux, sweeper, grants, opened, call>>

\* checkRateLimit, lines 136-140: take the mutex, read the clock and the entry.
CheckRateLimitEnter(r) ==
    /\ h[r].pc = "admit"
    /\ MutexFree(rateLimitMux)
    /\ rateLimitMux' = r
    /\ h' = [h EXCEPT ![r] = [@ EXCEPT !.pc = "locked", !.t = now,
                                         !.entry = Lookup(rateLimitMap, h[r].clientIP)]]
    /\ UNCHANGED <<env, now, rateLimitMap, sweeper, grants, opened, call>>

\* The rate-limit branch without its return.
AfterCheckRateLimit_NoReturn(ok) == "gate"

\* Where SearchActivities goes after checkRateLimit returned ok (lines
\* 242-245): on, or out with the 429 answer.
AfterCheckRateLimit(ok) == IF ok THEN "gate" ELSE "done"

\* checkRateLimit, lines 142-158, and the handler's branch on its result
\* (lines 242-245).
CheckRateLimitExit(r) ==
    /\ h[r].pc = "locked"
    /\ LET ip == h[r].clientIP
           res == checkRateLimit(h[r].entry, h[r].t)
       IN /\ rateLimitMap' = IF res.entry = h[r].entry THEN rateLimitMap
                             ELSE Store(rateLimitMap, ip, res.entry)
          /\ grants' = IF res.created THEN [grants EXCEPT ![ip] = 1]
                       ELSE IF res.ok THEN [grants EXCEPT ![ip] = @ + 1]
                       ELSE grants
          /\ opened' = IF res.created THEN [opened EXCEPT ![ip] = h[r].t] ELSE opened
          /\ h' = [h EXCEPT ![r] =
                IF res.ok
                THEN [@ EXCEPT !.pc = AfterCheckRateLimit(TRUE), !.rateOK = "yes",
                        !.t = 0, !.entry = NoEntry]
                ELSE [@ EXCEPT !.pc = AfterCheckRateLimit(FALSE), !.rateOK = "no",
                        !.t = 0, !.entry = NoEntry,
                        !.response = sendErrorResponse(429,
                            "Rate limit exceeded. Please try again later.")]]
    /\ rateLimitMux' = Unlock(rateLimitMux)
    /\ UNCHANGED <<env, now, sweeper, call>>

\* Lines 247-255 up to the first network call of verifyAppCheckToken: the
\* bypasses, and the missing token, which is refused before any call.
Gate(r) ==
    /\ h[r].pc = "gate"
    /\ IF AppCheckRequired(h[r].ipIsAllowed, env.SKIP_APP_CHECK)
       THEN LET v == verifyAppCheckToken(h[r].appCheckToken, "ready")
            IN IF ~v.called
               THEN h' = [h EXCEPT ![r] = [@ EXCEPT !.pc = "done", !.gate = "rejected",
                            !.authErr = v.err,
                            !.response = sendErrorResponse(401,
                                "Invalid or missing App Check token")]]
               ELSE h' = [h EXCEPT ![r] = [@ EXCEPT !.pc = "verify",
                                                     !.verifierCalls = @ + 1]]
       ELSE h' = [h EXCEPT ![r] = [@ EXCEPT !.pc = "decode",
                    !.gate = IF h[r].ipIsAllowed THEN "allowlisted" ELSE "skipped"]]
    /\ UNCHANGED <<env, now, rateLimitMap, rateLimitMux, sweeper, grants, opened, call>>

\* verifyAppCheckToken returns from the Firebase SDK (lines 184-204) and the
\* handler branches on its error (lines 249-254).
VerifierReturns(r, I) ==
    /\ h[r].pc = "verify"
    /\ \E firebase \in I.firebase :
        LET v == verifyAppCheckToken(h[r].appCheckToken, firebase)
        IN IF v.err # ""
           THEN h' = [h EXCEPT ![r] = [@ EXCEPT !.pc = "done", !.gate = "rejected",
                        !.firebase = firebase, !.authErr = v.err,
                        !.response = sendErrorResponse(401,
                            "Invalid or missing App Check token")]]
           ELSE h' = [h EXCEPT ![r] = [@ EXCEPT !.pc = "decode", !.gate = "verified",
                                                 !.firebase = firebase]]
    /\ UNCHANGED <<env, now, rateLimitMap, rateLimitMux, sweeper, grants, opened, call>>

\* GenerateActivitiesSuggestions ignoring the error of a step.
Proceeds_Always(err) == TRUE

\* Whether GenerateActivitiesSuggestions goes on after a step that returned err.
Proceeds(err) == err = NoError

\* NewGeminiClient, given what getSecretValue handed it ("" when the project
\* id is missing or the secret cannot be read): a client in every case.
NewGeminiClient(secret) == [APIKey |-> secret, Model |-> "gemini-2.0-flash"]

\* GenerateActivitiesSuggestions without its test of the key.
apiKeyError_Unchecked(c) == NoError

\* GenerateActivitiesSuggestions, lines 135-137: the error for a client with
\* no key.
apiKeyError(c) ==
    IF c.APIKey = "" THEN <<"Gemini API key not configured">> ELSE NoError

\* The validation of main.go:272 comparing the query untrimmed.
QueryMissing_NoTrim(searchRequest) == searchRequest.Query = <<>>

\* The validation of main.go:272: the query is empty once trimmed.
QueryMissing(searchRequest) == TrimSpace(searchRequest.Query) = <<>>

\* Lines 257-279 and performSearch up to the stage-1 call: decode, validate,
\* NewGeminiClient, the API key check, buildSearchPrompt, send. The record
\* keeps the body read, in body, and the key of the client, in apiKey, until
\* the two stages end in the 200 answer.
Decode(r, I) ==
    /\ h[r].pc = "decode"
    /\ \E searchRequest \in I.bodies, apiKey \in I.secrets :
        IF ~searchRequest.wellFormed
        THEN Respond(r, searchRequest, sendErrorResponse(400, "Invalid JSON format"))
        ELSE IF QueryMissing(searchRequest)
        THEN Respond(r, searchRequest, sendErrorResponse(400,
                "Query parameter is required and cannot be empty"))
        ELSE LET geminiClient == NewGeminiClient(apiKey)
                 keyErr == apiKeyError(geminiClient)
             IN IF ~Proceeds(keyErr)
                THEN h' = [h EXCEPT ![r] = [@ EXCEPT !.pc = "done", !.genErr = keyErr,
                            !.appCheckToken = "",
                            !.body = <<searchRequest>>,
                            !.apiKey = geminiClient.APIKey,
                            !.response = successResponse(performSearch(keyErr, <<>>))]]
                ELSE IF buildSearchPrompt(searchRequest, now).panics
                THEN h' = [h EXCEPT ![r] = [@ EXCEPT !.pc = "panic",
                                                      !.appCheckToken = "",
                                                      !.body = <<searchRequest>>,
                                                      !.apiKey = geminiClient.APIKey]]
                ELSE h' = [h EXCEPT ![r] = [@ EXCEPT !.pc = "stage1",
                                                      !.appCheckToken = "",
                                                      !.body = <<searchRequest>>,
                                                      !.apiKey = geminiClient.APIKey,
                                                      !.upstreamCalls = @ + 1]]
    /\ UNCHANGED <<env, now, rateLimitMap, rateLimitMux, sweeper, grants, opened, call>>

\* searchWithGoogleSearch returns (lines 185-190); on success
\* convertToStructuredJSON builds its prompt and sends it (lines 140-148,
\* 196-217).
Stage1Returns(r, I) ==
    /\ h[r].pc = "stage1"
    /\ \E resp \in I.stage1 :
        LET sent == searchWithGoogleSearch(resp)
            err == IF sent.err = NoError THEN NoError
                   ELSE Wrap("failed to search for activities", sent.err)
        IN IF ~Proceeds(err)
           THEN h' = [h EXCEPT ![r] = [@ EXCEPT !.pc = "done", !.genErr = err,
                        !.body = <<>>, !.apiKey = "",
                        !.response = successResponse(performSearch(err, <<>>))]]
           ELSE h' = [h EXCEPT ![r] = [@ EXCEPT !.pc = "stage2", !.genErr = err,
                        !.searchResults = sent.text,
                        !.conversionPrompt = buildConversionPrompt(sent.text),
                        !.upstreamCalls = @ + 1]]
    /\ UNCHANGED <<env, now, rateLimitMap, rateLimitMux, sweeper, grants, opened, call>>

\* convertToStructuredJSON returns (lines 217-234), performSearch maps an
\* error to the empty list and the handler answers 200.
Stage2Returns(r, I) ==
    /\ h[r].pc = "stage2"
    /\ \E resp \in I.stage2 :
        LET conv == convertToStructuredJSON(resp)
            err == IF conv.err = NoError THEN NoError
                   ELSE Wrap("failed to convert to structured JSON", conv.err)
        IN h' = [h EXCEPT ![r] = [@ EXCEPT !.pc = "done", !.genErr = err,
                    !.body = <<>>, !.apiKey = "", !.searchResults = <<>>,
                    !.conversionPrompt = <<>>,
                    !.response = successResponse(performSearch(err, conv.activities))]]
    /\ UNCHANGED <<env, now, rateLimitMap, rateLimitMux, sweeper, grants, opened, call>>

\* The handler has returned (or the panic has unwound it); its slot is free
\* for the next request.
Finish(r) ==
    /\ h[r].pc \in {"done", "panic"}
    /\ h' = [h EXCEPT ![r] = Idle]
    /\ UNCHANGED <<env, now, rateLimitMap, rateLimitMux, sweeper, grants, opened, call>>

(***************************************************************************)
(* Clock and cleanup goroutine                                             *)
(***************************************************************************)
Tick ==
    /\ now < MaxTime
    /\ now' = now + 1
    /\ UNCHANGED <<env, rateLimitMap, rateLimitMux, sweeper, h, grants, opened, call>>

\* The ticker fired (lines 331-338); cleanupRateLimitMap takes the mutex.
CleanupEnter ==
    /\ sweeper = "idle"
    /\ MutexFree(rateLimitMux)
    /\ rateLimitMux' = Sweeper
    /\ sweeper' = "locked"
    /\ UNCHANGED <<env, now, rateLimitMap, h, grants, opened, call>>

\* cleanupRateLimitMap, lines 165-171, and the deferred Unlock.
CleanupExit ==
    /\ sweeper = "locked"
    /\ rateLimitMap' = cleanupRateLimitMap(rateLimitMap, now)
    /\ rateLimitMux' = Unlock(rateLimitMux)
    /\ sweeper' = "idle"
    /\ UNCHANGED <<env, now, h, grants, opened, call>>

(***************************************************************************)
(* The methods of GeminiClient, each followed on one input                 *)
(***************************************************************************)
\* A method is called at most MaxCalls times on its input.
MaxCalls == 2

\* The JSON arrays of Activity the upstream answers with.
ValidArrays == {<<"[3]">>, <<"[1]">>, <<"[]">>, QuotedFence}

\* a between a ```json fence and a closing fence, each on its own line.
JsonFenced(a) == <<"F", "j", "\n">> \o a \o <<"\n", "F">>
\* a between two plain fences.
PlainFenced(a) == <<"F", "\n">> \o a \o <<"\n", "F">>

\* Stage-2 texts: the arrays bare, fenced, fenced inside prose; texts with no
\* array in them.
ConversionTexts ==
    Stage2Texts \cup ValidArrays
    \cup {JsonFenced(a) : a \in ValidArrays} \cup {PlainFenced(a) : a \in ValidArrays}
    \cup {<<"p">> \o JsonFenced(a) \o <<"p">> : a \in ValidArrays}
    \cup {<<>>, <<"p">>, <<"\n">>, JsonFenced(<<"p">>), PlainFenced(<<"[x">>),
          PlainFenced(<<"null">>), <<"F", "F">>, <<"p", "F", "j", "p">>}
    \cup {PlainFenced(a) \o <<"p">> \o JsonFenced(<<"[x">>) : a \in ValidArrays}
    \cup {PlainFenced(a) \o <<"p", "F", "j", "\n", "[x">> : a \in ValidArrays}

\* A request for a later year than those of the clock.
LaterBody ==
    Body(TRUE, <<"z", "o", "o">>, <<>>, TRUE, TRUE,
         <<"2", "0", "2", "7", "-", "0", "1", "-", "0", "5">>)

\* The calls followed: the method and its input, no result yet.
Call(fn, arg) == [fn |-> fn, arg |-> arg, out |-> <<>>]

ClientCalls ==
    {Call("sendGeminiRequest", resp) : resp \in Stage1Responses \cup Stage2Responses}
    \cup {Call("searchWithGoogleSearch", resp) : resp \in Stage1Responses}
    \cup {Call("convertToStructuredJSON", text) : text \in ConversionTexts}
    \cup {Call("buildSearchPrompt", req) :
            req \in {b \in Bodies : b.wellFormed /\ ~QueryMissing(b)} \cup {LaterBody}}
    \cup {Call("buildConversionPrompt", text) :
            text \in {IntroText, RealText, RealText \o MoreText, <<>>}}

\* The method fn returns res at the time of the clock.
Returned(fn, res) ==
    /\ call.fn = fn
    /\ Len(call.out) < MaxCalls
    /\ call' = [call EXCEPT !.out = Append(@, [t |-> now, res |-> res])]
    /\ UNCHANGED <<env, now, rateLimitMap, rateLimitMux, sweeper, h, grants, opened>>

SendGeminiRequestReturns == Returned("sendGeminiRequest", sendGeminiRequest(call.arg))

SearchWithGoogleSearchReturns ==
    Returned("searchWithGoogleSearch", searchWithGoogleSearch(call.arg))

\* convertToStructuredJSON once the stage-2 text call.arg arrived.
ConvertToStructuredJSONReturns ==
    Returned("convertToStructuredJSON", parseActivities(call.arg))

BuildSearchPromptReturns ==
    Returned("buildSearchPrompt", buildSearchPrompt(call.arg, now))

BuildConversionPromptReturns ==
    Returned("buildConversionPrompt", buildConversionPrompt(call.arg))

(***************************************************************************)
(* Specifications                                                          *)
(***************************************************************************)
\* The whole handler on every input of one client key, at one instant of the
\* clock.
Next ==
    \/ \E r \in Requests : Receive(r, AllInputs)
    \/ \E r \in Requests : CheckRateLimitEnter(r)
    \/ \E r \in Requests : CheckRateLimitExit(r)
    \/ \E r \in Requests : Gate(r)
    \/ \E r \in Requests : VerifierReturns(r, AllInputs)
    \/ \E r \in Requests : Decode(r, AllInputs)
    \/ \E r \in Requests : Stage1Returns(r, AllInputs)
    \/ \E r \in Requests : Stage2Returns(r, AllInputs)
    \/ \E r \in Requests : Finish(r)

Spec == Init /\ [][Next]_vars

\* The rate limiter over time: POST requests of both client keys that carry no
\* token, in a process with no allowlist and no bypass, the clock and the
\* cleanup goroutine.
LimiterInputs ==
    Inputs({"POST"}, XForwardedFors, {""}, FirebaseOutcomes, Bodies, SecretValues,
           Stage1Responses, Stage2Responses)

InitLimiter == InitWith({<<>>}, {""}) /\ call = NoCall

NextLimiter ==
    \/ \E r \in Requests : Receive(r, LimiterInputs)
    \/ \E r \in Requests : CheckRateLimitEnter(r)
    \/ \E r \in Requests : CheckRateLimitExit(r)
    \/ \E r \in Requests : Gate(r)
    \/ \E r \in Requests : Finish(r)
    \/ Tick
    \/ CleanupEnter
    \/ CleanupExit

SpecLimiter == InitLimiter /\ [][NextLimiter]_vars

\* The scheduling the limiter runs under: a goroutine that holds the mutex
\* runs on to its Unlock; the ticker of init (lines 332-337) is never stopped
\* and sync.Mutex hands the lock to a goroutine that keeps waiting for it, so
\* the sweep that can lock again and again does lock.
FairLimiter ==
    /\ \A r \in Requests : WF_vars(CheckRateLimitExit(r))
    /\ SF_vars(CleanupEnter)
    /\ WF_vars(CleanupExit)

SpecLimiterFair == SpecLimiter /\ FairLimiter

\* GeminiClient alone: one of its methods on one input, called up to MaxCalls
\* times while the clock runs.
InitClient ==
    /\ InitWith({<<>>}, {""})
    /\ call \in ClientCalls

NextClient ==
    \/ SendGeminiRequestReturns
    \/ SearchWithGoogleSearchReturns
    \/ ConvertToStructuredJSONReturns
    \/ BuildSearchPromptReturns
    \/ BuildConversionPromptReturns
    \/ Tick

SpecClient == InitClient /\ [][NextClient]_vars

(***************************************************************************)
(* Properties of the rate limiter (SpecLimiter)                            *)
(***************************************************************************)
\* The call of handler r leaves checkRateLimit in this step.
Returns(r) == h[r].pc = "locked" /\ h'[r].pc # "locked"

\* C1: for a key k, once maxRequestsPerWindow calls were admitted in k's
\* window, a further call for k made before rateLimitWindow has elapsed since
\* the window opened returns false; a call for k made after rateLimitWindow
\* has elapsed since the window opened returns true.
C1_LimitPerWindow ==
    [][\A r \in Requests :
        Returns(r) =>
            LET k == h[r].clientIP
                t == h[r].t
            IN /\ (/\ opened[k] >= 0
                   /\ t < opened[k] + rateLimitWindow
                   /\ grants[k] = maxRequestsPerWindow) => h'[r].rateOK = "no"
               /\ (opened[k] >= 0 /\ t > opened[k] + rateLimitWindow)
                    => h'[r].rateOK = "yes"]_vars

\* A call was rejected in an earlier window of its key and a later call for
\* the same key opened a new window.
C1_Witness ==
    \E r1, r2 \in Requests :
        /\ h[r1].rateOK = "no" /\ h[r2].rateOK = "yes"
        /\ h[r1].clientIP = h[r2].clientIP
        /\ opened[h[r2].clientIP] > rateLimitWindow
        /\ grants[h[r2].clientIP] = 1

\* C2: checkRateLimit is one critical section: at most one goroutine is
\* between Lock and Unlock, a key's window never has more admissions than
\* maxRequestsPerWindow, and an entry's count is the number of admissions of
\* its window (no update is lost).
C2_NoLostUpdate ==
    /\ Cardinality({r \in Requests : h[r].pc = "locked"})
         + (IF sweeper = "locked" THEN 1 ELSE 0) <= 1
    /\ \A k \in ClientIPs :
        /\ grants[k] <= maxRequestsPerWindow
        /\ k \in DOMAIN rateLimitMap => rateLimitMap[k].count = grants[k]

\* Two calls for one key are in progress at count = limit - 1: one is in the
\* critical section, the other waits for the mutex.
C2_Witness ==
    \E r1, r2 \in Requests :
        /\ h[r1].pc = "locked" /\ h[r2].pc = "admit"
        /\ h[r1].clientIP = h[r2].clientIP
        /\ h[r1].entry.exists
        /\ h[r1].entry.count = maxRequestsPerWindow - 1
        /\ h[r1].t <= h[r1].entry.resetTime

\* C3: a call that returns false leaves the rate-limit table as it was when
\* the call read it: no count and no reset time changes, for any key.
C3_RejectionLeavesTable ==
    [][\A r \in Requests :
        (Returns(r) /\ h'[r].rateOK = "no") =>
            /\ rateLimitMap' = rateLimitMap
            /\ h[r].entry = Lookup(rateLimitMap, h[r].clientIP)]_vars

\* A call was rejected while its key's entry is full and another key has an
\* entry of its own.
C3_Witness ==
    \E r \in Requests :
        /\ h[r].pc = "done" /\ h[r].response.status = 429
        /\ h[r].clientIP \in DOMAIN rateLimitMap
        /\ rateLimitMap[h[r].clientIP].count = maxRequestsPerWindow
        /\ \E k \in DOMAIN rateLimitMap : k # h[r].clientIP

\* C4: a call that finds no entry, or an entry with now >= resetTime (the
\* instant now = resetTime included), returns true and leaves the entry
\* (count = 1, resetTime = now + window).
C4_ResetAtWindowEnd ==
    [][\A r \in Requests :
        (Returns(r) /\ (~h[r].entry.exists \/ h[r].t >= h[r].entry.resetTime)) =>
            /\ h'[r].rateOK = "yes"
            /\ Lookup(rateLimitMap', h[r].clientIP)
                 = Entry(1, h[r].t + rateLimitWindow)]_vars

\* cleanupRateLimitMap completes in this step.
SweepCompletes == sweeper = "locked" /\ sweeper' = "idle"

\* C18: when cleanupRateLimitMap completes at time now, no entry whose reset
\* time has passed (now is after it) is left in the table and every other
\* entry is still there with its count and reset time; and the sweep runs
\* again and again for as long as the process lives.
C18_Sweep ==
    /\ [][SweepCompletes =>
            /\ \A k \in DOMAIN rateLimitMap' : ~(now > rateLimitMap'[k].resetTime)
            /\ \A k \in DOMAIN rateLimitMap :
                ~(now > rateLimitMap[k].resetTime)
                    => k \in DOMAIN rateLimitMap' /\ rateLimitMap'[k] = rateLimitMap[k]]_vars
    /\ []<>(sweeper = "locked")

\* A sweep is over that deleted the entry of one key and kept the entry of
\* the other, whose window is still open.
C18_Witness ==
    /\ sweeper = "idle"
    /\ \E k1, k2 \in ClientIPs :
        /\ opened[k1] >= 0 /\ k1 \notin DOMAIN rateLimitMap
        /\ k2 \in DOMAIN rateLimitMap /\ rateLimitMap[k2].resetTime >= now

\* The entry of key k in a limiter that is never swept, from the history of
\* k's admissions g and of its windows' openings o.
NoSweepEntry(g, o, k) ==
    IF o[k] >= 0 THEN Entry(g[k], o[k] + rateLimitWindow) ELSE NoEntry

\* C23: a limiter that is swept and one that is never swept agree on every
\* call: each call of checkRateLimit returns what it would return on the
\* table that was never swept, and leaves that table's entry as the call
\* would leave it; so a sweep gives no key an admission it would not have had.
C23_SweepInvisible ==
    [][\A r \in Requests :
        Returns(r) =>
            LET k == h[r].clientIP
                ref == checkRateLimit(NoSweepEntry(grants, opened, k), h[r].t)
            IN /\ (h'[r].rateOK = "yes") = ref.ok
               /\ NoSweepEntry(grants', opened', k) = ref.entry]_vars

\* A call is inside checkRateLimit and found no entry for its key, whose
\* window was full when the sweep deleted it.
C23_Witness ==
    \E r \in Requests :
        /\ h[r].pc = "locked"
        /\ ~h[r].entry.exists
        /\ opened[h[r].clientIP] >= 0
        /\ grants[h[r].clientIP] = maxRequestsPerWindow

\* C24: every entry of the table has 1 <= count <= maxRequestsPerWindow, and
\* the reset time of an entry changes only when the entry is created again
\* (count back to 1, reset time = time of the call + window), never when its
\* count is incremented.
C24_EntriesInRange ==
    [][/\ \A k \in DOMAIN rateLimitMap' :
            /\ 1 <= rateLimitMap'[k].count
            /\ rateLimitMap'[k].count <= maxRequestsPerWindow
       /\ \A k \in DOMAIN rateLimitMap \cap DOMAIN rateLimitMap' :
            /\ rateLimitMap'[k].resetTime # rateLimitMap[k].resetTime
                => /\ rateLimitMap'[k].count = 1
                   /\ \E r \in Requests :
                        /\ Returns(r) /\ h[r].clientIP = k
                        /\ rateLimitMap'[k].resetTime = h[r].t + rateLimitWindow
            /\ rateLimitMap'[k].count = rateLimitMap[k].count + 1
                => rateLimitMap'[k].resetTime = rateLimitMap[k].resetTime]_vars

\* The entry of a key is full, after an increment made later than the
\* opening of its window, and the entry of another key was created again.
C24_Witness ==
    \E k1, k2 \in DOMAIN rateLimitMap :
        /\ rateLimitMap[k1].count = maxRequestsPerWindow
        /\ rateLimitMap[k1].resetTime = opened[k1] + rateLimitWindow
        /\ now > opened[k1]
        /\ k2 # k1
        /\ opened[k2] > rateLimitWindow
        /\ rateLimitMap[k2].count = 1

(***************************************************************************)
(* Properties of the access gate and the pipeline (Spec)                   *)
(***************************************************************************)
\* The client keys the operator listed in ALLOWED_IPS, value by value.
AllowlistedKeys == IF env.ALLOWED_IPS = <<" ", "a">> THEN {<<"a">>} ELSE {}

\* Handler r serves a POST request.
IsPost(r) == h[r].pc # "idle" /\ h[r].Method = "POST"

\* Handler r is at or past the decoding of the request body.
ReachedDecoding(r) ==
    \/ h[r].pc \in {"decode", "stage1", "stage2", "panic"}
    \/ h[r].pc = "done" /\ h[r].response.status \in {200, 400}

Unauthorized == sendErrorResponse(401, "Invalid or missing App Check token")

\* C5: a POST whose client key is in the allowlist is never answered 401 and
\* the attestation verifier is never consulted for it, whatever its token.
C5_AllowlistBypass ==
    \A r \in Requests :
        (IsPost(r) /\ h[r].clientIP \in AllowlistedKeys) =>
            /\ h[r].response.status # 401
            /\ h[r].verifierCalls = 0
            /\ h[r].pc # "verify"
            /\ h[r].gate \in {"", "allowlisted"}

\* An allowlisted request with a token the verifier would refuse is past the
\* gate although the bypass switch is off.
C5_Witness ==
    \E r \in Requests :
        /\ h[r].clientIP \in AllowlistedKeys
        /\ env.SKIP_APP_CHECK # "true"
        /\ h[r].appCheckToken = "bad"
        /\ h[r].pc = "decode"

\* C6: with SKIP_APP_CHECK unset or different from "true", a request whose key
\* is not allowlisted reaches body decoding only after the verifier accepted
\* its non-empty token; with SKIP_APP_CHECK = "true" no token is verified and
\* no request is answered 401.
C6_BypassOffByDefault ==
    \A r \in Requests :
        /\ (/\ IsPost(r)
            /\ env.SKIP_APP_CHECK # "true"
            /\ h[r].clientIP \notin AllowlistedKeys
            /\ ReachedDecoding(r))
           => /\ h[r].gate = "verified"
              /\ h[r].verifierCalls = 1
              /\ h[r].firebase = "ready"
              /\ h[r].pc = "decode" => h[r].appCheckToken = "good"
        /\ (IsPost(r) /\ env.SKIP_APP_CHECK = "true")
           => /\ h[r].verifierCalls = 0
              /\ h[r].pc # "verify"
              /\ h[r].response.status # 401
              /\ h[r].gate \in {"", "allowlisted", "skipped"}

\* With SKIP_APP_CHECK set to a value other than "true", a request that is not
\* allowlisted reached decoding with a verified token.
C6_Witness ==
    \E r \in Requests :
        /\ env.SKIP_APP_CHECK = "TRUE"
        /\ h[r].clientIP \notin AllowlistedKeys
        /\ h[r].pc = "decode"
        /\ h[r].appCheckToken = "good"
        /\ h[r].verifierCalls = 1

\* C7: for a request neither allowlisted nor bypassed, once the gate has
\* acted: an empty token is rejected with no verifier call, a verifier that
\* is unavailable and a token it refuses are both rejected, the three
\* rejections carry the same 401 response and three different internal
\* errors, and nothing else passes than a token the verifier accepted.
C7_Rejections ==
    \A r \in Requests :
        (/\ IsPost(r)
         /\ env.SKIP_APP_CHECK # "true"
         /\ h[r].clientIP \notin AllowlistedKeys
         /\ h[r].rateOK = "yes"
         /\ h[r].pc \notin {"gate", "verify"})
        => IF h[r].gate = "verified"
           THEN h[r].firebase = "ready" /\ h[r].verifierCalls = 1
           ELSE /\ h[r].gate = "rejected"
                /\ h[r].pc = "done"
                /\ h[r].response = Unauthorized
                /\ h[r].upstreamCalls = 0
                /\ h[r].appCheckToken = ""
                    => /\ h[r].verifierCalls = 0
                       /\ h[r].authErr = "missing App Check token"
                /\ (h[r].appCheckToken # "" /\ h[r].firebase # "ready")
                    => /\ h[r].verifierCalls = 1
                       /\ h[r].authErr = "authentication service error"
                /\ (h[r].appCheckToken # "" /\ h[r].firebase = "ready")
                    => /\ h[r].verifierCalls = 1
                       /\ h[r].appCheckToken = "bad"
                       /\ h[r].authErr = "invalid App Check token"

\* Two requests were rejected with the same response, one for an unavailable
\* verifier and one for a refused token.
C7_Witness ==
    \E r1, r2 \in Requests :
        /\ h[r1].response = Unauthorized /\ h[r2].response = Unauthorized
        /\ h[r1].authErr = "authentication service error"
        /\ h[r1].appCheckToken = "good"
        /\ h[r2].authErr = "invalid App Check token"

\* C8: a request that checkRateLimit refused is answered 429 and neither the
\* verifier nor the upstream endpoint is called for it; a request the gate
\* rejected is answered 401 and the upstream endpoint is not called for it.
C8_ShortCircuit ==
    \A r \in Requests :
        /\ h[r].rateOK = "no"
            => /\ h[r].pc = "done"
               /\ h[r].response.status = 429
               /\ h[r].verifierCalls = 0
               /\ h[r].upstreamCalls = 0
               /\ h[r].gate = ""
        /\ h[r].response.status = 429 => h[r].rateOK = "no"
        /\ h[r].gate = "rejected"
            => /\ h[r].pc = "done"
               /\ h[r].response.status = 401
               /\ h[r].upstreamCalls = 0
        /\ h[r].response.status = 401 => h[r].gate = "rejected"

\* One request was answered 429 and another 401.
C8_Witness ==
    \E r1, r2 \in Requests :
        /\ h[r1].pc = "done" /\ h[r1].response.status = 429
        /\ h[r2].pc = "done" /\ h[r2].response.status = 401

\* C9: every error GenerateActivitiesSuggestions returns (a failed stage 1, a
\* failed stage 2, a stage-2 text that does not parse) ends in the answer 200,
\* success, no activities, "Found 0 activities", no error text.
C9_FailuresAnswerEmpty ==
    \A r \in Requests :
        (h[r].genErr # NoError) =>
            /\ h[r].pc = "done"
            /\ h[r].response.status = 200
            /\ h[r].response.Success
            /\ h[r].response.Activities = <<>>
            /\ h[r].response.Message = <<"Found ", "0", " activities">>
            /\ h[r].response.Error = ""

\* A stage-1 transport failure and a stage-2 text that does not parse were
\* both answered.
C9_Witness ==
    \E r1, r2 \in Requests :
        /\ h[r1].genErr = <<"failed to search for activities", "failed to send request">>
        /\ h[r2].genErr = <<"failed to convert to structured JSON",
                            "failed to parse activities from response">>
        /\ h[r1].pc = "done" /\ h[r2].pc = "done"

\* C10: the stage-2 call is in flight only after stage 1 returned a text with
\* no error, its prompt embeds that text, a request makes at most one call per
\* stage, and after a stage-1 failure no stage-2 call is made.
C10_StagesInSequence ==
    \A r \in Requests :
        /\ h[r].upstreamCalls <= 2
        /\ h[r].pc = "stage1" => h[r].upstreamCalls = 1 /\ h[r].genErr = NoError
        /\ h[r].pc = "stage2"
            => /\ h[r].upstreamCalls = 2
               /\ h[r].genErr = NoError
               /\ Len(h[r].conversionPrompt) = Len(h[r].searchResults) + 4
               /\ SubSeq(h[r].conversionPrompt, 3, 2 + Len(h[r].searchResults))
                    = h[r].searchResults
        /\ (h[r].genErr # NoError /\ h[r].genErr[1] = "failed to search for activities")
            => h[r].upstreamCalls = 1
        /\ (h[r].genErr # NoError /\ h[r].genErr[1] = "failed to convert to structured JSON")
            => h[r].upstreamCalls = 2
        /\ (h[r].pc = "done" /\ h[r].response.status = 200 /\ h[r].genErr = NoError)
            => h[r].upstreamCalls = 2

\* One request has its stage-2 call in flight with the stage-1 text in the
\* prompt while another stopped after a failed stage 1.
C10_Witness ==
    \E r1, r2 \in Requests :
        /\ h[r1].pc = "stage2"
        /\ h[r1].searchResults = RealText
        /\ h[r1].upstreamCalls = 2
        /\ h[r2].pc = "done"
        /\ h[r2].genErr = <<"failed to search for activities", "no candidates in response">>
        /\ h[r2].upstreamCalls = 1

\* Every character of the query is white space (none when it is empty).
IsBlank(query) == \A i \in 1..Len(query) : query[i] \in {" ", "\t", "\n"}

C16_SuccessBody ==
    \A r \in Requests :
        (h[r].pc = "done" /\ h[r].response.status = 200) =>
            LET body == encodeSearchResponse(h[r].response)
            IN /\ "success" \in body.keys /\ body.success
               /\ "activities" \in body.keys
               /\ body.activities = h[r].response.Activities
               /\ "message" \in body.keys
               /\ body.message = <<"Found ", ToString(Len(body.activities)), " activities">>

\* Handler r waits for the attestation verifier or for the upstream endpoint.
InNetworkCall(r) == h[r].pc \in {"verify", "stage1", "stage2"}

\* C19: the mutex is held only by a handler inside checkRateLimit or by the
\* sweep inside cleanupRateLimitMap, never by a handler that waits for the
\* verifier or for an upstream call; so while a request waits in such a call
\* and no one is inside checkRateLimit or the sweep, a request at admission
\* can enter checkRateLimit.
C19_LockOnlyInLimiter ==
    /\ rateLimitMux \in {NoHolder, Sweeper} \cup Requests
    /\ rateLimitMux = Sweeper => sweeper = "locked"
    /\ \A r \in Requests :
        /\ rateLimitMux = r => h[r].pc = "locked"
        /\ InNetworkCall(r) => rateLimitMux # r
    /\ \A r1, r2 \in Requests :
        (/\ InNetworkCall(r1)
         /\ h[r2].pc = "admit"
         /\ \A r3 \in Requests : h[r3].pc # "locked"
         /\ sweeper # "locked")
            => ENABLED CheckRateLimitEnter(r2)

\* One request waits for its stage-2 answer while another is inside
\* checkRateLimit.
C19_Witness ==
    \E r1, r2 \in Requests :
        /\ h[r1].pc = "stage2"
        /\ h[r2].pc = "locked" /\ rateLimitMux = r2

\* C25: a POST that is answered 401 or 400 has consumed a slot of its key
\* before (its checkRateLimit call returned true and was counted in the key's
\* window); the limit holds for allowlisted keys too, whose call is refused
\* at a full entry; apart from the sweep, the table changes only when the
\* checkRateLimit call of a POST adds one to its key's count, and no OPTIONS
\* or other non-POST request ever enters the limiter.
C25_RateLimitFirst ==
    [][\A r \in Requests :
        /\ (h[r].response.status = 0 /\ h'[r].response.status \in {400, 401})
            => /\ h[r].rateOK = "yes"
               /\ grants[h[r].clientIP] >= 1
        /\ (Returns(r) /\ h[r].ipIsAllowed
                /\ h[r].entry.exists /\ h[r].entry.count >= maxRequestsPerWindow
                /\ h[r].t <= h[r].entry.resetTime)
            => h'[r].rateOK = "no" /\ h'[r].response.status = 429
        /\ (h'[r].pc \in {"gate", "verify", "decode"} /\ h'[r].ipIsAllowed)
            => h'[r].rateOK = "yes"
        /\ Returns(r)
            => /\ h[r].Method = "POST"
               /\ h'[r].rateOK = "yes"
                    => Lookup(rateLimitMap', h[r].clientIP).count
                         = IF h[r].entry.exists /\ h[r].t <= h[r].entry.resetTime
                           THEN h[r].entry.count + 1 ELSE 1
        /\ h'[r].Method \in {"OPTIONS", "GET"}
            => h'[r].pc = "done" /\ h'[r].rateOK = ""
        /\ rateLimitMap' # rateLimitMap
            => \/ SweepCompletes
               \/ \E r2 \in Requests : Returns(r2) /\ h'[r2].rateOK = "yes"]_vars

\* On an allowlisted key, one request was refused by the limiter and
\* another, admitted, was answered 400.
C25_Witness ==
    \E r1, r2 \in Requests :
        /\ h[r1].ipIsAllowed /\ h[r1].pc = "done" /\ h[r1].response.status = 429
        /\ h[r2].ipIsAllowed /\ h[r2].pc = "done" /\ h[r2].response.status = 400
        /\ h[r2].rateOK = "yes"

\* Handler r decoded a request with a non-blank query and has not answered
\* it from the two stages.
Searching(r) ==
    /\ h[r].body # <<>>
    /\ h[r].body[1].wellFormed
    /\ ~IsBlank(h[r].body[1].Query)

\* C22: when the client was built with an empty API key, the request is
\* answered 200, success, no activities, "Found 0 activities";
\* GenerateActivitiesSuggestions returned the key error before any prompt was
\* built (also for a request whose prompt could not be built) and no request
\* went to the upstream endpoint.
C22_NoKeyNoCall ==
    \A r \in Requests :
        (Searching(r) /\ h[r].apiKey = "") =>
            /\ h[r].pc = "done"
            /\ h[r].genErr = <<"Gemini API key not configured">>
            /\ h[r].upstreamCalls = 0
            /\ h[r].searchResults = <<>> /\ h[r].conversionPrompt = <<>>
            /\ h[r].response = [status |-> 200, Success |-> TRUE, Activities |-> <<>>,
                                Message |-> <<"Found ", "0", " activities">>,
                                Error |-> ""]

\* Two requests met a client with no key, one of them with a startDate too
\* short to build a prompt from.
C22_Witness ==
    \E r1, r2 \in Requests :
        /\ h[r1].pc = "done" /\ h[r1].body = <<ShortDateBody>> /\ h[r1].apiKey = ""
        /\ h[r2].pc = "done" /\ h[r2].body = <<PlainBody>> /\ h[r2].apiKey = ""

\* C26: with a configured credential, a POST that passed the rate limit and
\* the gate and decoded to a request with a non-blank query, whatever else
\* the body decoded to (a dateRange with a startDate shorter than 4
\* characters included), never aborts: it is in one of the two stages or it
\* is answered 200.
C26_NoAbort ==
    \A r \in Requests :
        (/\ IsPost(r)
         /\ h[r].rateOK = "yes"
         /\ h[r].gate \in {"allowlisted", "skipped", "verified"}
         /\ Searching(r)
         /\ h[r].apiKey # "")
            => /\ h[r].pc \in {"stage1", "stage2", "done"}
               /\ h[r].pc = "done" => h[r].response.status = 200

(***************************************************************************)
(* Properties of the generative client (SpecClient)                        *)
(***************************************************************************)
\* The results of the calls of method fn.
Results(fn) == IF call.fn = fn THEN {call.out[i].res : i \in 1..Len(call.out)} ELSE {}

\* The Activity list the JSON array a denotes.
ListOf(a) ==
    CASE a = <<"[3]">> -> ActivityList(3)
      [] a = <<"[1]">> -> ActivityList(1)
      [] a = <<"[]">> -> <<>>
      [] a = QuotedFence -> <<Activity(4)>>

\* Some part of text is a valid JSON array of Activity.
ContainsArray(text) ==
    \E i, j \in 1..Len(text) : SubSeq(text, i, j) \in ValidArrays

\* C11: for every valid JSON array a of Activity, the stage-2 texts a, a in a
\* ```json fence pair and a in a plain fence pair all give the list a denotes
\* with no error; a text that contains no valid JSON array anywhere gives an
\* error and no list.
C11_Extraction ==
    \A res \in Results("convertToStructuredJSON") :
        /\ \A a \in ValidArrays :
            call.arg \in {a, JsonFenced(a), PlainFenced(a)}
                => res.err = NoError /\ res.activities = ListOf(a)
        /\ ~ContainsArray(call.arg) => res.err # NoError /\ res.activities = <<>>

\* The texts of the parts one after the other.
RECURSIVE Concat(_)
Concat(parts) == IF parts = <<>> THEN <<>> ELSE Head(parts) \o Concat(Tail(parts))

\* The upstream answered 200 with an envelope that has a first candidate.
HasCandidate(resp) ==
    ~resp.transportErr /\ resp.status = 200 /\ resp.parses /\ Len(resp.candidates) >= 1

\* C12: for a 200 response whose first candidate has parts p1..pn, n >= 1,
\* sendGeminiRequest returns no error and the concatenation of the texts of
\* all n parts in order.
C12_AllPartsConcatenated ==
    \A res \in Results("sendGeminiRequest") :
        (HasCandidate(call.arg) /\ Len(call.arg.candidates[1]) >= 1)
            => res.err = NoError /\ res.text = Concat(call.arg.candidates[1])

\* The segment announces a search instead of giving content.
IsAcknowledgement(segment) == segment = IntroText

\* C13: when the stage-1 response has more than one text segment and the
\* first is an acknowledgement that the model will search, the stage-1 text
\* handed to stage 2 is the remaining segments only.
C13_IntroStripped ==
    \A res \in Results("searchWithGoogleSearch") :
        (/\ HasCandidate(call.arg)
         /\ Len(call.arg.candidates[1]) > 1
         /\ IsAcknowledgement(call.arg.candidates[1][1]))
            => res.err = NoError /\ res.text = Concat(Tail(call.arg.candidates[1]))

\* C14: sendGeminiRequest returns an error and no text when the status is
\* not 200 (the error carries the status code and the raw body), when the
\* response has no candidate, when the first candidate has no part, and when
\* the extracted text is empty.
C14_FailuresAreErrors ==
    \A res \in Results("sendGeminiRequest") :
        LET resp == call.arg
        IN /\ (~resp.transportErr /\ resp.status # 200)
                => res = [err |-> <<"Gemini API error", ToString(resp.status), "raw body">>,
                          text |-> <<>>]
           /\ (~resp.transportErr /\ resp.status = 200 /\ resp.parses)
                => /\ Len(resp.candidates) = 0 => res.err # NoError /\ res.text = <<>>
                   /\ (HasCandidate(resp) /\ Len(resp.candidates[1]) = 0)
                        => res.err # NoError /\ res.text = <<>>
                   /\ (/\ HasCandidate(resp)
                       /\ Len(resp.candidates[1]) >= 1
                       /\ Concat(resp.candidates[1]) = <<>>)
                        => res.err # NoError

\* The year token of a search prompt: the four characters that follow
\* " for school holidays in ".
YearToken(prompt) ==
    LET i == IndexOf(prompt, " for school holidays in ")
    IN SubSeq(prompt, i + 1, i + 4)

\* C17: the year token of buildSearchPrompt is the first 4 characters of
\* dateRange.startDate when the request has a dateRange (whose startDate has
\* them), "2025" for "2025-12-20"; it is the calendar year of the clock at
\* the call when the request has no dateRange.
C17_YearToken ==
    \A i \in 1..Len(call.out) :
        call.fn = "buildSearchPrompt" =>
            LET req == call.arg
                res == call.out[i].res
            IN /\ (req.hasDateRange /\ Len(req.StartDate) >= 4)
                    => /\ ~res.panics
                       /\ YearToken(res.prompt)
                            = <<req.StartDate[1], req.StartDate[2],
                                req.StartDate[3], req.StartDate[4]>>
               /\ req = DatedBody => YearToken(res.prompt) = <<"2", "0", "2", "5">>
               /\ ~req.hasDateRange
                    => ~res.panics /\ YearToken(res.prompt) = YearOf(call.out[i].t)

\* The prompt for startDate 2025-12-20 was built in 2025 and again in 2026.
C17_Witness ==
    /\ call.fn = "buildSearchPrompt"
    /\ call.arg = DatedBody
    /\ Len(call.out) = 2
    /\ YearOf(call.out[1].t) # YearOf(call.out[2].t)

\* C20: two calls of buildSearchPrompt with equal requests return equal
\* prompts whatever the time of the call; two calls of buildConversionPrompt
\* with equal stage-1 text return equal prompts that contain that text.
C20_PromptsPure ==
    /\ \A p, q \in Results("buildSearchPrompt") : p = q
    /\ \A p, q \in Results("buildConversionPrompt") :
        p = q /\ IndexSeq(p, call.arg) # 0

\* C20 as amended: two calls of buildSearchPrompt with equal requests return
\* equal prompts when the request has a dateRange with a startDate of 4
\* characters or more, whatever the times of the calls, and when both calls
\* are made in the same calendar year; two calls of buildConversionPrompt
\* with equal stage-1 text return equal prompts that contain that text.
C20_PromptsPureInYear ==
    /\ \A i, j \in 1..Len(call.out) :
        (/\ call.fn = "buildSearchPrompt"
         /\ \/ call.arg.hasDateRange /\ Len(call.arg.StartDate) >= 4
            \/ ~call.arg.hasDateRange
                /\ YearOf(call.out[i].t) = YearOf(call.out[j].t))
            => /\ call.out[i].res = call.out[j].res
               /\ ~call.out[i].res.panics
    /\ \A p, q \in Results("buildConversionPrompt") :
        p = q /\ IndexSeq(p, call.arg) # 0

\* The prompt of a request with a dateRange was built in two different years.
C20_Witness ==
    /\ call.fn = "buildSearchPrompt"
    /\ call.arg = LaterBody
    /\ Len(call.out) = 2
    /\ call.out[1].t < NewYearAt /\ call.out[2].t >= NewYearAt

\* The position of the first ```json marker of text, 0 when it has none.
JsonFenceAt(text) == IndexSeq(text, <<"F", "j">>)

\* The interior of the ```json fence of text: what follows the marker up to
\* the next fence; no interior (<<>> in a one-element or empty sequence) when
\* the fence is not closed.
JsonFenceInterior(text) ==
    LET from == JsonFenceAt(text) + 2
        rest == SubSeq(text, from, Len(text))
        e == IndexSeq(rest, <<"F">>)
    IN IF e = 0 THEN <<>> ELSE <<SubSeq(rest, 1, e - 1)>>

\* The interior of the first generic fence pair of text: what lies between
\* the first fence and the next one; none when text has no such pair.
GenericPairInterior(text) ==
    LET a == IndexSeq(text, <<"F">>)
        rest == SubSeq(text, a + 1, Len(text))
        e == IndexSeq(rest, <<"F">>)
    IN IF a = 0 \/ e = 0 THEN <<>> ELSE <<SubSeq(rest, 1, e - 1)>>

\* C21: when the whole-text parse fails and the text has a ```json fence
\* whose interior does not parse, or that is not closed, the extractor goes on
\* to the generic fence pair: when the text has one whose interior parses,
\* the answer is that interior's list and no error.
C21_FallsBackToGenericPair ==
    \A res \in Results("convertToStructuredJSON") :
        LET text == call.arg
            inner == JsonFenceInterior(text)
            pair == GenericPairInterior(text)
        IN (/\ ~Unmarshal(text).ok
            /\ JsonFenceAt(text) # 0
            /\ inner = <<>> \/ ~Unmarshal(inner[1]).ok
            /\ pair # <<>>
            /\ Unmarshal(pair[1]).ok)
                => /\ res.err = NoError
                   /\ res.activities = Unmarshal(pair[1]).activities

====
